---- MODULE Spec2Model ----
(***************************************************************************)
(* Course resource handlers of the school-management backend               *)
(* (controllers/course.controller.js): createCourse, getAllCourses,        *)
(* getCourseById, updateCourse and deleteCourse, each an async handler     *)
(* that suspends at its awaited persistence calls.  The persistence layer  *)
(* (db.Course of ../models/index.js) is not part of the controller file;   *)
(* it is modelled from the specification's data model.                     *)
(***************************************************************************)
EXTENDS Integers, Sequences, FiniteSets, TLC

\* Number of createCourse calls the persistence layer accepts in one run.
MaxCourses == 2

\* ------------------------------------------------------------------------
\* Query-string values.  A query parameter is either missing (undefined) or
\* a string, held as a sequence of one-character strings so that parsing is
\* computed character by character.
\* ------------------------------------------------------------------------
Missing == [present |-> FALSE, v |-> <<>>]
Str(s) == [present |-> TRUE, v |-> s]

Digits == <<"0", "1", "2", "3", "4", "5", "6", "7", "8", "9">>
IsDigit(c) == \E i \in 1..Len(Digits) : Digits[i] = c
DigitVal(c) == (CHOOSE i \in 1..Len(Digits) : Digits[i] = c) - 1
IsSpace(c) == c \in {" ", "\t", "\n"}

UpperCase == <<"A", "B", "C", "D", "E", "F", "G", "H", "I", "J", "K", "L", "M",
               "N", "O", "P", "Q", "R", "S", "T", "U", "V", "W", "X", "Y", "Z">>
LowerCase == <<"a", "b", "c", "d", "e", "f", "g", "h", "i", "j", "k", "l", "m",
               "n", "o", "p", "q", "r", "s", "t", "u", "v", "w", "x", "y", "z">>

NaN == [nan |-> TRUE, n |-> 0]
Num(k) == [nan |-> FALSE, n |-> k]

RECURSIVE TrimStart(_)
TrimStart(s) ==
    IF s # <<>> /\ IsSpace(Head(s)) THEN TrimStart(Tail(s)) ELSE s

RECURSIVE TrimEnd(_)
TrimEnd(s) ==
    IF s # <<>> /\ IsSpace(s[Len(s)]) THEN TrimEnd(SubSeq(s, 1, Len(s) - 1)) ELSE s

\* String.prototype.trim
trim(s) == TrimEnd(TrimStart(s))

LowerChar(c) ==
    IF \E i \in 1..Len(UpperCase) : UpperCase[i] = c
    THEN LowerCase[CHOOSE i \in 1..Len(UpperCase) : UpperCase[i] = c]
    ELSE c

\* String.prototype.toLowerCase
toLowerCase(s) == [i \in 1..Len(s) |-> LowerChar(s[i])]

RECURSIVE ParseDigits(_, _, _)
ParseDigits(s, acc, seen) ==
    IF s # <<>> /\ IsDigit(Head(s))
    THEN ParseDigits(Tail(s), acc * 10 + DigitVal(Head(s)), TRUE)
    ELSE IF seen THEN Num(acc) ELSE NaN

\* parseInt(x) with no radix, on a query value: leading white space is
\* skipped, an optional sign is read, then the longest run of decimal digits;
\* no digit at all (or undefined) gives NaN.  (A "0x" prefix, read as
\* hexadecimal, does not occur among the values of the model.)
parseInt(q) ==
    IF ~q.present THEN NaN
    ELSE LET t == TrimStart(q.v)
             signed == t # <<>> /\ Head(t) \in {"+", "-"}
             neg == t # <<>> /\ Head(t) = "-"
             r == ParseDigits(IF signed THEN Tail(t) ELSE t, 0, FALSE)
         IN  IF r.nan THEN NaN ELSE Num(IF neg THEN 0 - r.n ELSE r.n)

\* `x || d` on a number: NaN and 0 are falsy.
OrDefault(x, d) == IF x.nan \/ x.n = 0 THEN d ELSE x.n

\* String.prototype.split(sep) for a one-character separator.
RECURSIVE split(_, _)
split(s, sep) ==
    LET idx == {i \in 1..Len(s) : s[i] = sep}
    IN  IF idx = {} THEN <<s>>
        ELSE LET i == CHOOSE k \in idx : \A m \in idx : k <= m
             IN  <<SubSeq(s, 1, i - 1)>> \o split(SubSeq(s, i + 1, Len(s)), sep)

\* Array.prototype.includes
includes(list, x) == \E i \in 1..Len(list) : list[i] = x

students == <<"s", "t", "u", "d", "e", "n", "t", "s">>
teachers == <<"t", "e", "a", "c", "h", "e", "r", "s">>
desc == <<"d", "e", "s", "c">>

\* Math.ceil(a / b) for a >= 0 and b # 0.
CeilDiv(a, b) ==
    IF b > 0 THEN (a + b - 1) \div b ELSE 0 - (a \div (0 - b))

\* ------------------------------------------------------------------------
\* Requests the model issues.
\* ------------------------------------------------------------------------
Titles == {"Algebra", "Algebra II"}
ValidBody(t) == [title |-> t, description |-> "Intro", TeacherId |-> 3]

\* Creation payloads: complete ones, one that lacks a required attribute, and
\* one that carries an identifier of its own.
CreateBodies ==
    {ValidBody(t) : t \in Titles}
        \cup {[title |-> "Algebra", description |-> "Intro"]}
        \cup {[id |-> 1, title |-> "Algebra II", description |-> "Intro", TeacherId |-> 3]}

\* Update payloads: a subset of the attributes, with and without an identifier.
UpdateBodies ==
    {[title |-> "Algebra II"],
     [id |-> 2, title |-> "Algebra"]}

\* Path identifiers: every identifier that can be assigned and one that never is.
Ids == 1..(MaxCourses + 1)

LimitParams ==
    {Missing, Str(<<"a", "b", "c">>), Str(<<"0">>), Str(<<"-", "1">>),
     Str(<<"1">>), Str(<<"2">>)}
PageParams ==
    {Missing, Str(<<"0">>), Str(<<"-", "1">>), Str(<<"2">>), Str(<<" ", "3", "x">>)}
SortParams ==
    {Missing, Str(<<"a", "s", "c">>), Str(desc), Str(<<"D", "E", "S", "C">>)}
PopulateParams ==
    {Missing, Str(<<>>), Str(students),
     Str(<<"S", "t", "u", "d", "e", "n", "t", "s", ",", " ">> \o
         <<"T", "E", "A", "C", "H", "E", "R", "S">>),
     Str(<<"b", "o", "g", "u", "s">>),
     Str(teachers \o <<",", "b", "o", "g", "u", "s">>)}

Query(l, pg, s, pop) == [limit |-> l, page |-> pg, sort |-> s, populate |-> pop]

\* Every pagination pair in ascending order, the positive limits in
\* descending order, and every sort and populate value on the default page.
Queries ==
    {Query(l, pg, Missing, Missing) : l \in LimitParams, pg \in PageParams}
        \cup {Query(l, pg, Str(desc), Missing) :
                l \in {Str(<<"1">>), Str(<<"2">>)}, pg \in {Missing, Str(<<"2">>)}}
        \cup {Query(Missing, Missing, s, Missing) : s \in SortParams}
        \cup {Query(Missing, Missing, Missing, pop) : pop \in PopulateParams}

\* ------------------------------------------------------------------------
\* State.
\* ------------------------------------------------------------------------
VARIABLES
    store,       \* the Course table: identifier -> row
    nextId,      \* the identifier the table assigns next
    clock,       \* the time of the latest creation, counted from the first one
    everStored,  \* every identifier a row was ever stored under
    deleted,     \* the identifiers deleteCourse has answered 'Deleted' for
    pc,          \* per handler invocation: the await it is suspended at
    req,         \* its request (op, params.id, body, query)
    locals,      \* its local constants (limit, page, sortOrder, include, total, ...)
    course,      \* its local `course`: <<>> before the lookup or for null
    resp,        \* the response it sent
    calls,       \* the persistence calls it made, in order
    written,     \* the rows its write call changed: <<>> before it, then <<n>>
    err          \* the exception its catch block caught: <<>> or <<message>>

vars ==
    <<store, nextId, clock, everStored, deleted,
      pc, req, locals, course, resp, calls, written, err>>
table == <<store, nextId, clock, everStored, deleted>>

NoReq == [op |-> "none"]
NoLocals == [op |-> "none"]
NoResp == [status |-> 0, body |-> [none |-> TRUE]]

\* ------------------------------------------------------------------------
\* The persistence layer (db.Course and its instances).
\* ------------------------------------------------------------------------
Required == {"title", "description", "TeacherId"}
\* Variant: the identifier is written like any other attribute.
Mutable_withId == {"id", "title", "description", "TeacherId"}
Mutable == {"title", "description", "TeacherId"}

ConnectionError == "connect ECONNREFUSED"
ValidationError == "notNull Violation"
RangeError == "negative LIMIT or OFFSET"

\* An instance as the handler holds and serializes it: the row and the
\* associations expanded on it.
Instance(row, include) ==
    [id |-> row.id, title |-> row.title, description |-> row.description,
     TeacherId |-> row.TeacherId, createdAt |-> row.createdAt,
     expanded |-> {include[i] : i \in 1..Len(include)}]

\* Course.create(values): the row the table stores.  The identifier is
\* assigned by the table, whatever the values carry.
Course_create(values, now) ==
    [id |-> nextId, title |-> values.title, description |-> values.description,
     TeacherId |-> values.TeacherId, createdAt |-> now]

Course_accepts(values) == Required \subseteq DOMAIN values

\* Course.count()
Course_count == Cardinality(DOMAIN store)

\* Course.findByPk(id, {include})
Course_findByPk(id, include) ==
    IF id \in DOMAIN store THEN <<Instance(store[id], include)>> ELSE <<>>

\* The orders in which the table may return all rows for
\* order: [['createdAt', dir]] (rows of equal createdAt come in any order).
Orderings(dir) ==
    LET ids == DOMAIN store
        n == Cardinality(ids)
    IN  {L \in [1..n -> ids] :
            /\ \A i, j \in 1..n : i # j => L[i] # L[j]
            /\ \A i, j \in 1..n : i < j =>
                 IF dir = "DESC"
                 THEN store[L[i]].createdAt >= store[L[j]].createdAt
                 ELSE store[L[i]].createdAt <= store[L[j]].createdAt}

\* The page of an ordered list: `limit` rows after skipping `offset`.
Page(L, offset, limit) ==
    SubSeq(L, offset + 1, IF offset + limit < Len(L) THEN offset + limit ELSE Len(L))

\* A negative limit or offset is not defined by the layer's contract: the
\* engine either rejects the query or reads it as "no limit" / "offset 0".
Course_findAllRejects(options) == options.limit < 0 \/ options.offset < 0

\* Course.findAll({include, limit, offset, order}): the possible results.
Course_findAll(options) ==
    LET off == IF options.offset < 0 THEN 0 ELSE options.offset
        lim == IF options.limit < 0 THEN Cardinality(DOMAIN store) ELSE options.limit
    IN  {[i \in 1..Len(Page(L, off, lim)) |->
            Instance(store[Page(L, off, lim)[i]], options.include)] :
         L \in Orderings(options.order)}

\* instance.update(values): the attributes an update writes.  The
\* identifier is immutable once assigned.
Patch(row, values) ==
    [k \in DOMAIN row |->
        IF k \in Mutable /\ k \in DOMAIN values THEN values[k] ELSE row[k]]

\* instance.update(values) on the table: the row of that identifier, if
\* still stored, takes the written attributes.
Instance_update(inst, values) ==
    IF inst.id \in DOMAIN store
    THEN [store EXCEPT ![inst.id] = Patch(store[inst.id], values)]
    ELSE store

\* The number of rows a write through the instance reaches.
RowsOf(inst) == IF inst.id \in DOMAIN store THEN 1 ELSE 0

\* instance.destroy() on the table.
Instance_destroy(inst) == [i \in DOMAIN store \ {inst.id} |-> store[i]]

\* The messages the pending call of an invocation can reject with: the
\* connection can fail under any call; a creation lacking a required
\* attribute and a query the engine refuses are rejected by the layer.
Rejections(call) ==
    {ConnectionError}
        \cup (IF call.fn = "create" /\ ~Course_accepts(call.args)
              THEN {ValidationError} ELSE {})
        \cup (IF call.fn = "findAll" /\ Course_findAllRejects(call.args)
              THEN {RangeError} ELSE {})

\* ------------------------------------------------------------------------
\* The handlers.
\* ------------------------------------------------------------------------
Call(fn, args) == [fn |-> fn, args |-> args]
Pending(p) == calls[p][Len(calls[p])]
Idle(p) == pc[p] \in {"idle", "done"}

\* Variant: the status is left at its default.
NotFound_plain == [status |-> 200, body |-> [message |-> "Not found"]]

\* res.status(404).json({ message: 'Not found' })
NotFound == [status |-> 404, body |-> [message |-> "Not found"]]
\* Variant: a fixed text in place of the exception's message.
ServerError_generic(message) ==
    [status |-> 500, body |-> [error |-> "Internal Server Error"]]

\* res.status(500).json({ error: err.message })
ServerError(message) == [status |-> 500, body |-> [error |-> message]]
\* res.status(201).json(course)
Created(inst) == [status |-> 201, body |-> inst]
\* res.json(...)
Ok(body) == [status |-> 200, body |-> body]
Deleted == [message |-> "Deleted"]

\* The handler is entered and runs to its first await.
Begin(p, request, loc, call, at) ==
    /\ pc' = [pc EXCEPT ![p] = at]
    /\ req' = [req EXCEPT ![p] = request]
    /\ locals' = [locals EXCEPT ![p] = loc]
    /\ course' = [course EXCEPT ![p] = <<>>]
    /\ resp' = [resp EXCEPT ![p] = NoResp]
    /\ calls' = [calls EXCEPT ![p] = <<call>>]
    /\ written' = [written EXCEPT ![p] = <<>>]
    /\ err' = [err EXCEPT ![p] = <<>>]
    /\ UNCHANGED table

Respond(p, r) ==
    /\ pc' = [pc EXCEPT ![p] = "done"]
    /\ resp' = [resp EXCEPT ![p] = r]

\* The awaited call rejects: the catch block of the handler answers.
Catch(p) ==
    /\ \E message \in Rejections(Pending(p)) :
         /\ err' = [err EXCEPT ![p] = <<message>>]
         /\ Respond(p, ServerError(message))
    /\ UNCHANGED <<table, req, locals, course, calls, written>>

\* ---- createCourse
\* Variant: the description is filled from the title.
CreateValues_swapped(body) ==
    [k \in DOMAIN body |-> IF k = "description" THEN body.title ELSE body[k]]

CreateValues(body) == body

CreatesInFlight == Cardinality({q \in DOMAIN pc : pc[q] = "create"})

createCourse_begin(p, body) ==
    /\ Idle(p)
    /\ nextId + CreatesInFlight <= MaxCourses
    /\ Begin(p, [op |-> "createCourse", body |-> body], NoLocals,
             Call("create", CreateValues(body)), "create")

createCourse_create(p) ==
    /\ pc[p] = "create"
    /\ Course_accepts(Pending(p).args)
    /\ \E now \in (IF everStored = {} THEN {clock} ELSE {clock, clock + 1}) :
         LET row == Course_create(Pending(p).args, now)
         IN  /\ store' = [i \in DOMAIN store \cup {row.id} |->
                            IF i = row.id THEN row ELSE store[i]]
             /\ nextId' = nextId + 1
             /\ clock' = now
             /\ everStored' = everStored \cup {row.id}
             /\ course' = [course EXCEPT ![p] = <<Instance(row, <<>>)>>]
             /\ Respond(p, Created(Instance(row, <<>>)))
    /\ written' = [written EXCEPT ![p] = <<1>>]
    /\ UNCHANGED <<deleted, req, locals, calls, err>>

createCourse_catch(p) ==
    /\ req[p].op = "createCourse"
    /\ pc[p] = "create"
    /\ Catch(p)

\* ---- getAllCourses
\* Variant: only NaN falls back to the default (as `??` on a checked
\* number would), so zero is kept.
Limit_nullish(query) ==
    IF parseInt(query.limit).nan THEN 10 ELSE parseInt(query.limit).n

Limit(query) == OrDefault(parseInt(query.limit), 10)
PageNumber(query) == OrDefault(parseInt(query.page), 1)
\* Variant: the comparison ignores case.
SortOrder_caseless(query) ==
    IF query.sort.present /\ toLowerCase(query.sort.v) = desc THEN "DESC" ELSE "ASC"

SortOrder(query) == IF query.sort = Str(desc) THEN "DESC" ELSE "ASC"

\* Variant: the tokens are not trimmed.
PopulateList_untrimmed(query) ==
    IF query.populate.present /\ query.populate.v # <<>>
    THEN LET parts == split(query.populate.v, ",")
         IN  [i \in 1..Len(parts) |-> toLowerCase(parts[i])]
    ELSE <<>>

PopulateList(query) ==
    IF query.populate.present /\ query.populate.v # <<>>
    THEN LET parts == split(query.populate.v, ",")
         IN  [i \in 1..Len(parts) |-> toLowerCase(trim(parts[i]))]
    ELSE <<>>

Include(populateList) ==
    (IF includes(populateList, students) THEN <<"Student">> ELSE <<>>)
        \o (IF includes(populateList, teachers) THEN <<"Teacher">> ELSE <<>>)

\* Variant: pages counted from zero.
Offset_fromZero(page, limit) == page * limit

Offset(page, limit) == (page - 1) * limit

\* The options of the findAll call (an empty include stands for undefined).
FindAllOptions(loc) ==
    [include |-> loc.include, limit |-> loc.limit,
     offset |-> Offset(loc.page, loc.limit), order |-> loc.sortOrder]

TotalPages(total, limit) == CeilDiv(total, limit)

getAllCourses_begin(p, query) ==
    /\ Idle(p)
    /\ Begin(p, [op |-> "getAllCourses", query |-> query],
             [limit |-> Limit(query), page |-> PageNumber(query),
              sortOrder |-> SortOrder(query), populateList |-> PopulateList(query),
              include |-> Include(PopulateList(query))],
             Call("count", <<>>), "count")

getAllCourses_count(p) ==
    /\ req[p].op = "getAllCourses"
    /\ pc[p] = "count"
    /\ LET total == Course_count
           loc == [limit |-> locals[p].limit, page |-> locals[p].page,
                   sortOrder |-> locals[p].sortOrder,
                   populateList |-> locals[p].populateList,
                   include |-> locals[p].include,
                   total |-> total,
                   totalPages |-> TotalPages(total, locals[p].limit)]
       IN  /\ locals' = [locals EXCEPT ![p] = loc]
           /\ calls' = [calls EXCEPT ![p] = Append(@, Call("findAll", FindAllOptions(loc)))]
    /\ pc' = [pc EXCEPT ![p] = "findAll"]
    /\ UNCHANGED <<table, req, course, resp, written, err>>

ListBody(loc, courses) ==
    [meta |-> [totalItems |-> loc.total, page |-> loc.page,
               totalPages |-> loc.totalPages],
     data |-> courses]

getAllCourses_findAll(p) ==
    /\ req[p].op = "getAllCourses"
    /\ pc[p] = "findAll"
    /\ \E courses \in Course_findAll(Pending(p).args) :
         Respond(p, Ok(ListBody(locals[p], courses)))
    /\ UNCHANGED <<table, req, locals, course, calls, written, err>>

getAllCourses_catch(p) ==
    /\ req[p].op = "getAllCourses"
    /\ pc[p] \in {"count", "findAll"}
    /\ Catch(p)

\* ---- getCourseById
getCourseById_begin(p, id) ==
    /\ Idle(p)
    /\ Begin(p, [op |-> "getCourseById", id |-> id], NoLocals,
             Call("findByPk", [id |-> id, include |-> <<"Student", "Teacher">>]),
             "findByPk")

getCourseById_findByPk(p) ==
    /\ req[p].op = "getCourseById"
    /\ pc[p] = "findByPk"
    /\ LET found == Course_findByPk(Pending(p).args.id, Pending(p).args.include)
       IN  /\ course' = [course EXCEPT ![p] = found]
           /\ IF found = <<>> THEN Respond(p, NotFound) ELSE Respond(p, Ok(found[1]))
    /\ UNCHANGED <<table, req, locals, calls, written, err>>

getCourseById_catch(p) ==
    /\ req[p].op = "getCourseById"
    /\ pc[p] = "findByPk"
    /\ Catch(p)

\* ---- updateCourse
updateCourse_begin(p, id, body) ==
    /\ Idle(p)
    /\ Begin(p, [op |-> "updateCourse", id |-> id, body |-> body], NoLocals,
             Call("findByPk", [id |-> id, include |-> <<>>]), "findByPk")

updateCourse_findByPk(p) ==
    /\ req[p].op = "updateCourse"
    /\ pc[p] = "findByPk"
    /\ LET found == Course_findByPk(Pending(p).args.id, Pending(p).args.include)
       IN  /\ course' = [course EXCEPT ![p] = found]
           /\ IF found = <<>>
              THEN /\ Respond(p, NotFound)
                   /\ UNCHANGED calls
              ELSE /\ calls' = [calls EXCEPT ![p] = Append(@, Call("update", req[p].body))]
                   /\ pc' = [pc EXCEPT ![p] = "update"]
                   /\ UNCHANGED resp
    /\ UNCHANGED <<table, req, locals, written, err>>

\* Variant: the write answers 404 when it reaches no row.
updateCourse_update_checked(p) ==
    /\ req[p].op = "updateCourse"
    /\ pc[p] = "update"
    /\ store' = Instance_update(course[p][1], Pending(p).args)
    /\ course' = [course EXCEPT ![p] = <<Patch(course[p][1], Pending(p).args)>>]
    /\ IF RowsOf(course[p][1]) = 0
       THEN Respond(p, NotFound)
       ELSE Respond(p, Ok(Patch(course[p][1], Pending(p).args)))
    /\ written' = [written EXCEPT ![p] = <<RowsOf(course[p][1])>>]
    /\ UNCHANGED <<nextId, clock, everStored, deleted, req, locals, calls, err>>

updateCourse_update(p) ==
    /\ req[p].op = "updateCourse"
    /\ pc[p] = "update"
    /\ store' = Instance_update(course[p][1], Pending(p).args)
    /\ course' = [course EXCEPT ![p] = <<Patch(course[p][1], Pending(p).args)>>]
    /\ Respond(p, Ok(Patch(course[p][1], Pending(p).args)))
    /\ written' = [written EXCEPT ![p] = <<RowsOf(course[p][1])>>]
    /\ UNCHANGED <<nextId, clock, everStored, deleted, req, locals, calls, err>>

updateCourse_catch(p) ==
    /\ req[p].op = "updateCourse"
    /\ pc[p] \in {"findByPk", "update"}
    /\ Catch(p)

\* ---- deleteCourse
deleteCourse_begin(p, id) ==
    /\ Idle(p)
    /\ Begin(p, [op |-> "deleteCourse", id |-> id], NoLocals,
             Call("findByPk", [id |-> id, include |-> <<>>]), "findByPk")

deleteCourse_findByPk(p) ==
    /\ req[p].op = "deleteCourse"
    /\ pc[p] = "findByPk"
    /\ LET found == Course_findByPk(Pending(p).args.id, Pending(p).args.include)
       IN  /\ course' = [course EXCEPT ![p] = found]
           /\ IF found = <<>>
              THEN /\ Respond(p, NotFound)
                   /\ UNCHANGED calls
              ELSE /\ calls' = [calls EXCEPT ![p] = Append(@, Call("destroy", <<>>))]
                   /\ pc' = [pc EXCEPT ![p] = "destroy"]
                   /\ UNCHANGED resp
    /\ UNCHANGED <<table, req, locals, written, err>>

\* Variant: 'Deleted' is answered without the row being removed.
deleteCourse_destroy_skipped(p) ==
    /\ req[p].op = "deleteCourse"
    /\ pc[p] = "destroy"
    /\ store' = store
    /\ Respond(p, Ok(Deleted))
    /\ deleted' = deleted \cup {course[p][1].id}
    /\ written' = [written EXCEPT ![p] = <<0>>]
    /\ UNCHANGED <<nextId, clock, everStored, req, locals, course, calls, err>>

deleteCourse_destroy(p) ==
    /\ req[p].op = "deleteCourse"
    /\ pc[p] = "destroy"
    /\ store' = Instance_destroy(course[p][1])
    /\ Respond(p, Ok(Deleted))
    /\ deleted' = deleted \cup {course[p][1].id}
    /\ written' = [written EXCEPT ![p] = <<RowsOf(course[p][1])>>]
    /\ UNCHANGED <<nextId, clock, everStored, req, locals, course, calls, err>>

deleteCourse_catch(p) ==
    /\ req[p].op = "deleteCourse"
    /\ pc[p] \in {"findByPk", "destroy"}
    /\ Catch(p)

\* ------------------------------------------------------------------------
\* Specifications.
\* ------------------------------------------------------------------------
InitOn(procs) ==
    /\ store = <<>>
    /\ nextId = 1
    /\ clock = 1
    /\ everStored = {}
    /\ deleted = {}
    /\ pc = [p \in procs |-> "idle"]
    /\ req = [p \in procs |-> NoReq]
    /\ locals = [p \in procs |-> NoLocals]
    /\ course = [p \in procs |-> <<>>]
    /\ resp = [p \in procs |-> NoResp]
    /\ calls = [p \in procs |-> <<>>]
    /\ written = [p \in procs |-> <<>>]
    /\ err = [p \in procs |-> <<>>]

\* One invocation at a time: a sequential run of the five operations.
SeqProcs == {"h1"}
Init == InitOn(SeqProcs)

Next ==
    \E p \in SeqProcs :
        \/ \E body \in CreateBodies : createCourse_begin(p, body)
        \/ createCourse_create(p)
        \/ createCourse_catch(p)
        \/ \E query \in Queries : getAllCourses_begin(p, query)
        \/ getAllCourses_count(p)
        \/ getAllCourses_findAll(p)
        \/ getAllCourses_catch(p)
        \/ \E id \in Ids : getCourseById_begin(p, id)
        \/ getCourseById_findByPk(p)
        \/ getCourseById_catch(p)
        \/ \E id \in Ids, body \in UpdateBodies : updateCourse_begin(p, id, body)
        \/ updateCourse_findByPk(p)
        \/ updateCourse_update(p)
        \/ updateCourse_catch(p)
        \/ \E id \in Ids : deleteCourse_begin(p, id)
        \/ deleteCourse_findByPk(p)
        \/ deleteCourse_destroy(p)
        \/ deleteCourse_catch(p)

Spec == Init /\ [][Next]_vars

\* Two invocations in flight, interleaving at their awaits.
ConcCreateBodies == {ValidBody("Algebra")}
ConcQueries == {Query(Missing, Missing, Missing, Missing)}
ConcIds == {1, MaxCourses}
ConcUpdateBodies == {[title |-> "Algebra II"]}

ConcProcs == {"h1", "h2"}
ConcInit == InitOn(ConcProcs)

ConcNext ==
    \E p \in ConcProcs :
        \/ \E body \in ConcCreateBodies : createCourse_begin(p, body)
        \/ createCourse_create(p)
        \/ createCourse_catch(p)
        \/ \E query \in ConcQueries : getAllCourses_begin(p, query)
        \/ getAllCourses_count(p)
        \/ getAllCourses_findAll(p)
        \/ getAllCourses_catch(p)
        \/ \E id \in ConcIds : getCourseById_begin(p, id)
        \/ getCourseById_findByPk(p)
        \/ getCourseById_catch(p)
        \/ \E id \in ConcIds, body \in ConcUpdateBodies : updateCourse_begin(p, id, body)
        \/ updateCourse_findByPk(p)
        \/ updateCourse_update(p)
        \/ updateCourse_catch(p)
        \/ \E id \in ConcIds : deleteCourse_begin(p, id)
        \/ deleteCourse_findByPk(p)
        \/ deleteCourse_destroy(p)
        \/ deleteCourse_catch(p)

ConcSpec == ConcInit /\ [][ConcNext]_vars

\* ------------------------------------------------------------------------
\* Properties.
\* ------------------------------------------------------------------------
Done(p) == pc[p] = "done"
\* The invocation has answered and none of its persistence calls raised.
Returned(p) == Done(p) /\ err[p] = <<>>
LookupOps == {"getCourseById", "updateCourse", "deleteCourse"}

\* C1, as stated: when getCourseById, updateCourse or deleteCourse has looked
\* up an identifier and found no stored course, it has answered 404 with the
\* body {message: 'Not Found'} and has written nothing.
C1_NotFoundCapitalised ==
    \A p \in DOMAIN pc :
        (Returned(p) /\ req[p].op \in LookupOps /\ course[p] = <<>>)
            => /\ resp[p] = [status |-> 404, body |-> [message |-> "Not Found"]]
               /\ written[p] = <<>>

\* The lookup of an identifier that has no stored course returns: the
\* handler answers at once, 404 {message: 'Not found'}, issues no further
\* persistence call and leaves the table as it is.
C1_LookupStep ==
    \A p \in DOMAIN pc :
        (/\ req[p].op \in LookupOps
         /\ pc[p] = "findByPk"
         /\ pc'[p] # "findByPk"
         /\ err'[p] = <<>>
         /\ req[p].id \notin DOMAIN store)
            => /\ pc'[p] = "done"
               /\ resp'[p] = [status |-> 404, body |-> [message |-> "Not found"]]
               /\ calls'[p] = calls[p]
               /\ store' = store

\* A 404 answer comes from one of the three lookups, after the lookup alone.
C1_OnlyLookup ==
    \A p \in DOMAIN pc :
        (Done(p) /\ resp[p].status = 404)
            => /\ req[p].op \in LookupOps
               /\ Len(calls[p]) = 1
               /\ calls[p][1].fn = "findByPk"
               /\ course[p] = <<>>
               /\ written[p] = <<>>

\* C1, as amended: for every identifier that has no stored course,
\* getCourseById, updateCourse and deleteCourse each answer 404 with the body
\* {message: 'Not found'} (lower-case f) once the lookup returns, make no
\* write call, and leave the set of stored courses and every stored course's
\* fields unchanged.
C1_NotFound == []C1_OnlyLookup /\ [][C1_LookupStep]_vars

\* A deleteCourse on a missing identifier has answered 404 while other
\* courses are stored.
C1_Witness ==
    \E p \in DOMAIN pc :
        /\ Done(p)
        /\ req[p].op = "deleteCourse"
        /\ resp[p].status = 404
        /\ req[p].id \notin DOMAIN store
        /\ DOMAIN store # {}

\* An invocation on an identifier already answered 'Deleted' completes: it
\* answers 404 (500 if its lookup raised), never 200.
C2_LaterStep ==
    \A p \in DOMAIN pc :
        (/\ req[p].op \in LookupOps
         /\ ~Idle(p)
         /\ req[p].id \in deleted
         /\ pc'[p] = "done")
            => resp'[p].status = (IF err'[p] = <<>> THEN 404 ELSE 500)

\* C2: in a sequential run, once deleteCourse on an identifier has answered
\* 200 {message: 'Deleted'}, every later getCourseById, updateCourse or
\* deleteCourse on that identifier whose lookup returns answers 404; the row
\* is gone for good, and no later createCourse stores a course under that
\* identifier again.
C2_DeletedStaysDeleted ==
    [](deleted \cap DOMAIN store = {}) /\ [][C2_LaterStep]_vars

\* After a deletion and a further creation, a getCourseById on the deleted
\* identifier has answered 404.
C2_Witness ==
    \E p \in DOMAIN pc :
        /\ Done(p)
        /\ req[p].op = "getCourseById"
        /\ req[p].id \in deleted
        /\ resp[p].status = 404
        /\ \E i \in DOMAIN store : i > req[p].id

\* The create call of a createCourse returns.
C3_CreateStep ==
    \A p \in DOMAIN pc :
        (pc[p] = "create" /\ pc'[p] = "done" /\ err'[p] = <<>>)
            => LET body == req[p].body
                   new == resp'[p].body
               IN  /\ resp'[p].status = 201
                   /\ new.id \notin everStored
                   /\ new.title = body.title
                   /\ new.description = body.description
                   /\ new.TeacherId = body.TeacherId
                   /\ DOMAIN store' = DOMAIN store \cup {new.id}
                   /\ new.id \notin DOMAIN store
                   /\ \A i \in DOMAIN store : store'[i] = store[i]
                   /\ store'[new.id].title = body.title
                   /\ store'[new.id].description = body.description
                   /\ store'[new.id].TeacherId = body.TeacherId

\* A 201 answer is given to a payload with every required attribute only.
C3_OnlyAccepted ==
    \A p \in DOMAIN pc :
        (Done(p) /\ resp[p].status = 201)
            => /\ req[p].op = "createCourse"
               /\ {"title", "description", "TeacherId"} \subseteq DOMAIN req[p].body

\* C3: for every creation payload the persistence layer accepts, createCourse
\* answers 201 with a record whose identifier differs from that of every
\* course stored before, and whose title, description and teacher reference
\* are those of the request body; exactly one course is added to the table
\* and no existing course is changed.
C3_Create == []C3_OnlyAccepted /\ [][C3_CreateStep]_vars

\* A creation has answered 201 after an earlier course was deleted, for a
\* payload that carries an identifier of its own.
C3_Witness ==
    \E p \in DOMAIN pc :
        /\ Done(p)
        /\ req[p].op = "createCourse"
        /\ resp[p].status = 201
        /\ deleted # {}
        /\ "id" \in DOMAIN req[p].body
        /\ resp[p].body.id # req[p].body.id

\* The persistence calls each operation makes, in order.
C4_Plan(op) ==
    CASE op = "createCourse" -> <<"create">>
      [] op = "getAllCourses" -> <<"count", "findAll">>
      [] op = "getCourseById" -> <<"findByPk">>
      [] op = "updateCourse" -> <<"findByPk", "update">>
      [] op = "deleteCourse" -> <<"findByPk", "destroy">>

\* After a persistence call raised: the answer is 500 with the exception's
\* message, and the calls made are the operation's calls up to the one that
\* raised, each made once.
C4_Answer ==
    \A p \in DOMAIN pc :
        err[p] # <<>>
            => /\ Done(p)
               /\ resp[p] = [status |-> 500, body |-> [error |-> err[p][1]]]
               /\ Len(calls[p]) >= 1
               /\ Len(calls[p]) <= Len(C4_Plan(req[p].op))
               /\ \A i \in 1..Len(calls[p]) : calls[p][i].fn = C4_Plan(req[p].op)[i]
               /\ written[p] = <<>>

\* The catch block issues no persistence call, and none follows it.
C4_NoRetry ==
    \A p \in DOMAIN pc : err'[p] # <<>> => calls'[p] = calls[p]

\* C4: in each of the five operations, when a persistence call raises, the
\* handler answers 500 with the body {error: <the exception's message>}; that
\* call was attempted exactly once and no further persistence call is made
\* in that invocation.
C4_ServerError == []C4_Answer /\ [][C4_NoRetry]_vars

\* The write of an updateCourse raised after its lookup had found the course.
C4_Witness ==
    \E p \in DOMAIN pc :
        /\ Done(p)
        /\ req[p].op = "updateCourse"
        /\ Len(calls[p]) = 2
        /\ err[p] # <<>>
        /\ resp[p].status = 500

\* The entries of list L at the zero-based positions first .. first+count-1
\* that exist in it.
C5_Positions(L, first, count) ==
    LET idx == {k \in 1..Len(L) : first <= k - 1 /\ k - 1 <= first + count - 1}
    IN  [i \in 1..Cardinality(idx) |->
            L[(CHOOSE m \in idx : \A n \in idx : m <= n) + i - 1]]

\* What the answer of a getAllCourses holds for the table as it is.
C5_Paged(p) ==
    LET loc == locals[p]
        body == resp[p].body
        n == Cardinality(DOMAIN store)
    IN  /\ resp[p].status = 200
        /\ body.meta.totalItems = n
        /\ body.meta.totalPages * loc.limit >= n
        /\ (body.meta.totalPages - 1) * loc.limit < n
        /\ Len(body.data) <= loc.limit
        /\ \A i \in 1..Len(body.data) :
             /\ body.data[i].id \in DOMAIN store
             /\ body.data[i].title = store[body.data[i].id].title
             /\ body.data[i].createdAt = store[body.data[i].id].createdAt
        /\ \E L \in Orderings(loc.sortOrder) :
             [i \in 1..Len(body.data) |-> body.data[i].id]
                 = C5_Positions(L, (loc.page - 1) * loc.limit, loc.limit)

\* C5, as stated: for every getAllCourses request whose effective limit is
\* greater than 0, run without interleaved writes and answered by the
\* persistence layer, meta.totalItems is the number of stored courses,
\* meta.totalPages is ceil(totalItems / limit), and data holds at most limit
\* courses: those at positions (page-1)*limit .. (page-1)*limit + limit - 1
\* of the ordered list.
C5_AnyPage ==
    \A p \in DOMAIN pc :
        (Returned(p) /\ req[p].op = "getAllCourses" /\ locals[p].limit > 0)
            => C5_Paged(p)

\* C5, as amended: the same for every request whose effective limit is
\* greater than 0 and whose effective page is at least 1 (so that the offset
\* (page-1)*limit is not negative).
C5_Pagination ==
    \A p \in DOMAIN pc :
        (/\ Returned(p)
         /\ req[p].op = "getAllCourses"
         /\ locals[p].limit > 0
         /\ locals[p].page >= 1)
            => C5_Paged(p)

\* The second page of one course per page has been answered, out of two
\* stored courses.
C5_Witness ==
    \E p \in DOMAIN pc :
        /\ Returned(p)
        /\ req[p].op = "getAllCourses"
        /\ locals[p].limit = 1
        /\ locals[p].page = 2
        /\ resp[p].body.meta.totalPages = 2
        /\ Len(resp[p].body.data) = 1

\* The integer a query value starts with, if it starts with one.
C6_Given(param) ==
    CASE param = Str(<<"0">>) -> <<0>>
      [] param = Str(<<"-", "1">>) -> <<0 - 1>>
      [] param = Str(<<"1">>) -> <<1>>
      [] param = Str(<<"2">>) -> <<2>>
      [] param = Str(<<" ", "3", "x">>) -> <<3>>
      [] OTHER -> <<>>

\* The limit and page of an invocation reach the findAll call and the answer.
C6_PassedOn(p) ==
    /\ Len(calls[p]) = 2 =>
         /\ calls[p][2].fn = "findAll"
         /\ calls[p][2].args.limit = locals[p].limit
         /\ calls[p][2].args.offset = (locals[p].page - 1) * locals[p].limit
    /\ Returned(p) => resp[p].body.meta.page = locals[p].page

\* C6, as stated: page is 1 and limit is 10 when the parameter is missing or
\* non-numeric (parseInt gives NaN); any other value, zero and negative ones
\* included, is used as given for the limit, in offset = (page-1)*limit, and
\* in meta.page.
C6_ZeroAsGiven ==
    \A p \in DOMAIN pc :
        req[p].op = "getAllCourses"
            => LET l == C6_Given(req[p].query.limit)
                   g == C6_Given(req[p].query.page)
               IN  /\ locals[p].limit = (IF l = <<>> THEN 10 ELSE l[1])
                   /\ locals[p].page = (IF g = <<>> THEN 1 ELSE g[1])
                   /\ C6_PassedOn(p)

\* C6, as amended: page is 1 and limit is 10 when the parameter is missing,
\* non-numeric (parseInt gives NaN), or zero; a negative value is not
\* guarded: it is used as given for the limit, in offset = (page-1)*limit,
\* and in meta.page.
C6_Defaults ==
    \A p \in DOMAIN pc :
        req[p].op = "getAllCourses"
            => LET l == C6_Given(req[p].query.limit)
                   g == C6_Given(req[p].query.page)
               IN  /\ locals[p].limit = (IF l = <<>> \/ l[1] = 0 THEN 10 ELSE l[1])
                   /\ locals[p].page = (IF g = <<>> \/ g[1] = 0 THEN 1 ELSE g[1])
                   /\ C6_PassedOn(p)

\* A request with limit=0 and page=-1 has been answered: limit 10, page -1.
C6_Witness ==
    \E p \in DOMAIN pc :
        /\ Returned(p)
        /\ req[p].op = "getAllCourses"
        /\ req[p].query.limit = Str(<<"0">>)
        /\ req[p].query.page = Str(<<"-", "1">>)
        /\ calls[p][2].args.limit = 10
        /\ calls[p][2].args.offset = 0 - 20
        /\ resp[p].body.meta.page = 0 - 1

\* C7: getAllCourses asks for, and returns, records in non-increasing
\* creation-timestamp order exactly when the sort parameter is `desc`; for
\* `asc`, a missing parameter and any other value it asks for and returns
\* non-decreasing order, and the value of sort never makes it answer an
\* error.
C7_SortOrder ==
    \A p \in DOMAIN pc :
        req[p].op = "getAllCourses"
            => LET descending == req[p].query.sort = Str(<<"d", "e", "s", "c">>)
               IN  /\ locals[p].sortOrder = (IF descending THEN "DESC" ELSE "ASC")
                   /\ Len(calls[p]) = 2 =>
                        calls[p][2].args.order = (IF descending THEN "DESC" ELSE "ASC")
                   /\ Returned(p) =>
                        /\ resp[p].status = 200
                        /\ \A i, j \in 1..Len(resp[p].body.data) :
                             i < j =>
                               IF descending
                               THEN resp[p].body.data[i].createdAt
                                        >= resp[p].body.data[j].createdAt
                               ELSE resp[p].body.data[i].createdAt
                                        <= resp[p].body.data[j].createdAt

\* A request with sort=desc has been answered with two courses of different
\* age, the newer first.
C7_Witness ==
    \E p \in DOMAIN pc :
        /\ Returned(p)
        /\ req[p].op = "getAllCourses"
        /\ req[p].query.sort = Str(<<"d", "e", "s", "c">>)
        /\ Len(resp[p].body.data) = 2
        /\ resp[p].body.data[1].createdAt > resp[p].body.data[2].createdAt

\* The associations each populate value of the model names.
C8_Expected(populate) ==
    CASE populate = Str(<<"s", "t", "u", "d", "e", "n", "t", "s">>) -> {"Student"}
      [] populate = Str(<<"S", "t", "u", "d", "e", "n", "t", "s", ",", " ",
                          "T", "E", "A", "C", "H", "E", "R", "S">>)
           -> {"Student", "Teacher"}
      [] populate = Str(<<"t", "e", "a", "c", "h", "e", "r", "s", ",",
                          "b", "o", "g", "u", "s">>) -> {"Teacher"}
      [] OTHER -> {}

\* C8: in getAllCourses the expanded associations are exactly the recognized
\* tokens among the comma-separated, trimmed, case-insensitively compared
\* tokens of populate: Student iff a token is `students`, Teacher iff a token
\* is `teachers`; an absent or empty populate, or one of unrecognized tokens
\* only, expands neither and raises no error.  getCourseById always expands
\* both.
C8_Populate ==
    \A p \in DOMAIN pc :
        /\ req[p].op = "getAllCourses" =>
             LET expected == C8_Expected(req[p].query.populate)
                 asked(inc) == {inc[i] : i \in 1..Len(inc)}
             IN  /\ asked(locals[p].include) = expected
                 /\ Len(calls[p]) = 2 => asked(calls[p][2].args.include) = expected
                 /\ Returned(p) =>
                      /\ resp[p].status = 200
                      /\ \A i \in 1..Len(resp[p].body.data) :
                           resp[p].body.data[i].expanded = expected
        /\ (req[p].op = "getCourseById" /\ Returned(p) /\ course[p] # <<>>) =>
             /\ resp[p].status = 200
             /\ resp[p].body.expanded = {"Student", "Teacher"}

\* A request with populate="Students, TEACHERS" has been answered with a
\* course carrying both associations.
C8_Witness ==
    \E p \in DOMAIN pc :
        /\ Returned(p)
        /\ req[p].op = "getAllCourses"
        /\ C8_Expected(req[p].query.populate) = {"Student", "Teacher"}
        /\ Len(resp[p].body.data) >= 1
        /\ resp[p].body.data[1].expanded = {"Student", "Teacher"}

C10_UpdateAfterDelete ==
    /\ deleted \cap DOMAIN store = {}
    /\ \A p \in DOMAIN pc :
         (Returned(p) /\ req[p].op = "updateCourse" /\ course[p] # <<>>)
             => /\ resp[p].status = 200
                /\ resp[p].body = course[p][1]
                /\ resp[p].body.title = req[p].body.title
                /\ written[p] \in {<<0>>, <<1>>}
                /\ written[p] = <<0>> => req[p].id \notin DOMAIN store

\* updateCourse and deleteCourse on one identifier both found the course;
\* deleteCourse removed it and answered 200 {message: 'Deleted'};
\* updateCourse then applied its update to the deleted record and answered 200.
C10_Witness ==
    \E p, q \in DOMAIN pc :
        /\ req[p].op = "updateCourse"
        /\ req[q].op = "deleteCourse"
        /\ req[p].id = req[q].id
        /\ course[p] # <<>>
        /\ course[q] # <<>>
        /\ resp[q] = [status |-> 200, body |-> [message |-> "Deleted"]]
        /\ written[q] = <<1>>
        /\ Done(p)
        /\ resp[p].status = 200
        /\ written[p] = <<0>>
        /\ req[p].id \notin DOMAIN store
====
